---------------------------- MODULE Spec2Model ----------------------------
(***************************************************************************)
(* Model of the FSMC NAND low-level driver (fsmc_nand_lld.c), HW_ECC       *)
(* build.                                                                  *)
(*                                                                         *)
(* Representation.  A uint32_t is the set of the positions (0..31) of its  *)
(* set bits; a memory region (the data buffer, the spare buffer, a flash   *)
(* page area) is the set of the addresses of its set bits, where bit k of  *)
(* byte b has address 8*b + k.  Bitwise operators of the C code become the *)
(* set operators below, so every mask, shift and xor of the source is      *)
(* computed, not assumed.                                                  *)
(*                                                                         *)
(* Each part of the driver has its own specification: SpecEcc, SpecRead    *)
(* and SpecEccRead (ecc_correct_data, read_page), SpecStatus (get_status), *)
(* SpecSync, SpecWrite (write_page, write_bytes, erase), SpecBytes         *)
(* (read_bytes, write_bytes), SpecGeometry (read_id, row address),         *)
(* SpecBadBlock (is_bad_block), SpecWriteRead (write_page then read_page), *)
(* SpecDma (data_read_dma, data_write_dma), SpecXfer (data_read,           *)
(* data_write), SpecSpareWrite (read_id then write_page), SpecAsync (a     *)
(* write or erase, then sync) and SpecEccBounds (ecc_correct_data on the   *)
(* buffer of a derived geometry).                                          *)
(***************************************************************************)
EXTENDS Integers, Sequences, FiniteSets, TLC

VARIABLES
    pc,          \* control location of the driver
    flashData,   \* data area of the flash page, as stored in the chip
    flashSpare,  \* spare area of the flash page, as stored in the chip
    wdata,       \* data area as it was programmed (before any corruption)
    dflips,      \* data bit addresses corrupted since programming
    pflips,      \* bits of the primary stored code corrupted since programming
    bflips,      \* bits of the backup stored code corrupted since programming
    argD,        \* read_page: caller passed a data buffer (dbuf != NULL)
    argS,        \* read_page: caller passed a spare buffer (sbuf != NULL)
    dbuf,        \* contents of the data buffer
    sbuf,        \* contents of the spare buffer in use (caller's or __sbuf)
    ecc_calc,    \* local ecc_calc
    ecc_read,    \* local ecc_read
    retry,       \* local retry
    result,      \* value returned by the last ecc_correct_data call
    err,         \* value read_page returns
    vlog,        \* passes through label ecc_retry: <<spare offset, outcome>>
    rb,          \* Ready/nBusy pin (GPIOD pin 6)
    polls,       \* parity of the number of pin polls of the current wait
    timeout,     \* fsmc_nand_get_status: local timeout
    status,      \* fsmc_nand_get_status: local status (and its return value)
    reads,       \* status bytes read by the current fsmc_nand_get_status call
    caller,      \* facade operation that is running or has just returned
    args,        \* its arguments: block, page, num_bytes, prev_command, buf,
                 \* and the caller's spare buffer as it was at the call
    ret,         \* value the facade operation returned
    bus,         \* cycles it has put on the bus, ECC commands, code stores
    asyncMode,   \* ASYNC_MODE the driver is built with
    fspec,       \* flash_spec[chip]
    nand_id,     \* identity bytes fsmc_nand_read_id read last
    flashSpare1, \* spare area of the page that follows the modelled page
    dma,         \* DMA stream and the driver's static DMA variables
    xfer         \* data_read / data_write: local i and the accesses made

vars == <<pc, flashData, flashSpare, wdata, dflips, pflips, bflips, argD, argS,
          dbuf, sbuf, ecc_calc, ecc_read, retry, result, err, vlog, rb, polls,
          timeout, status, reads, caller, args, ret, bus, asyncMode, fspec,
          nand_id, flashSpare1, dma, xfer>>

flashVars == <<flashData, flashSpare, wdata, dflips, pflips, bflips>>
readVars  == <<argD, argS, sbuf, retry, err, vlog>>
eccVars   == <<dbuf, ecc_calc, ecc_read, result>>
lineVars  == <<rb, polls>>
statVars  == <<timeout, status, reads>>
facVars   == <<caller, args, ret, bus>>
cfgVars   == <<asyncMode, fspec, nand_id>>
ioVars    == <<dma, xfer>>
xVars     == <<facVars, cfgVars, flashSpare1, ioVars>>

---------------------------------------------------------------------------
(* Bounds of the model *)

NumPatterns == 2        \* programmed data patterns tried
NumSampleAddrs == 2     \* data bit addresses combined with further flips
MaxCodeFlips == 2       \* stored-code bits corrupted in one scenario

---------------------------------------------------------------------------
(* uint32_t arithmetic on bit sets *)

WordBits == 0..31

Not(w) == WordBits \ w                       \* w ^ 0xFFFFFFFF
Xor(a, b) == (a \ b) \cup (b \ a)            \* a ^ b
And(a, b) == a \cap b                        \* a & b
Or(a, b) == a \cup b                         \* a | b
Shr(w, n) == {i - n : i \in {j \in w : j >= n}}   \* w >> n

RECURSIVE Val(_)
Val(w) == IF w = {} THEN 0
          ELSE LET i == CHOOSE j \in w : TRUE IN 2^i + Val(w \ {i})

---------------------------------------------------------------------------
(* Chip geometry of the static table *)

DataSize == 2048
SpareSize == 64
NumDataBits == DataSize * 8
DataAddrs == 0..(NumDataBits - 1)

\* a 32-bit load from buf + off on a little-endian core
LoadWord(buf, off) == {a - 8 * off : a \in {x \in buf : x >= 8 * off /\ x < 8 * off + 32}}

\* a 32-bit store of w at buf + off
StoreWord(buf, off, w) ==
    {x \in buf : x < 8 * off \/ x >= 8 * off + 32} \cup {8 * off + i : i \in w}

(* a buffer of n bytes, every byte 0xFF *)
Filled(n) == 0..(8 * n - 1)

---------------------------------------------------------------------------
(* Driver configuration and the state of the facade before any call *)

\* #define ASYNC_MODE 1
ASYNC_MODE == 1

\* static flash_chip_spec_t flash_spec[NAND_NUM_CHIPS], as initialised
StaticSpec ==
    [page_size |-> DataSize + SpareSize, data_size |-> DataSize,
     spare_size |-> SpareSize, sectors_per_page |-> 4, pages_per_block |-> 64,
     block_size |-> 131072, num_blocks |-> 1024, num_dies_per_ce |-> 1,
     num_planes |-> 1, max_num_bad_blocks |-> 25]

NoArgs ==
    [block |-> 0, page |-> 0, num_bytes |-> 0, prev_command |-> 0, buf |-> 0,
     spare |-> {}]

\* the DMA stream after reset and the locals of data_read_dma /
\* data_write_dma: static bool_t dma_inited = FALSE; the stream reports
\* disabled, no enable request is pending, the completion flag is clear
DmaReset ==
    [dma_inited |-> FALSE, unit |-> "none", ndtr |-> 0, en |-> "DISABLE",
     req |-> FALSE, tcif |-> FALSE, timeout |-> 0, polls |-> 0,
     msg |-> "none", cr |-> {}, dma_reg_cr |-> {}, base |-> 0, inits |-> 0]

\* no processor-driven transfer has been made
NoXfer == [i |-> 0, log |-> <<>>]

XIdle ==
    /\ caller = "none" /\ args = NoArgs /\ ret = "none" /\ bus = <<>>
    /\ asyncMode = ASYNC_MODE /\ fspec = StaticSpec /\ nand_id = <<>>
    /\ flashSpare1 = {} /\ dma = DmaReset /\ xfer = NoXfer

---------------------------------------------------------------------------
(* The FSMC ECC accumulator over the bytes moved while ECC is enabled      *)
(* (2048-byte ECC page: 14 address bits, 28 parity bits).  Parity bit 2i+1 *)
(* covers the data bits whose address has bit i set, parity bit 2i those   *)
(* whose address has bit i clear.                                          *)

AddrBit(a, i) == (a \div (2^i)) % 2

Odd(S) == Cardinality(S) % 2 = 1

FSMC_GetECC(region) ==
    {2 * i + 1 : i \in {j \in 0..13 : Odd({a \in region : AddrBit(a, j) = 1})}}
      \cup
    {2 * i : i \in {j \in 0..13 : Odd({a \in region : AddrBit(a, j) = 0})}}

(* ecc_calc = FSMC_GetECC(NAND_BANK); ecc_calc ^= 0xFFFFFFFF; *)
ComputedCode(region) == Not(FSMC_GetECC(region))

---------------------------------------------------------------------------
(* ecc_correct_data *)

\* variant: the syndrome keeps all 32 bits
ECC_MASK32 == 0..31

ECC_MASK28 == 0..27                              \* 0x0FFFFFFF
ECC_MASK == {2 * i : i \in 0..13}                \* 0x05555555

CountTopBit == 23                                \* mask = 0x00800000

RECURSIVE CountOnes(_, _)
(* count = 0; mask = 1 << m; while (mask) { if (syndrome & mask) count++; mask >>= 1; } *)
CountOnes(syndrome, m) ==
    IF m < 0 THEN 0
    ELSE (IF m \in syndrome THEN 1 ELSE 0) + CountOnes(syndrome, m - 1)

Syndrome(calc, read) == And(Xor(Not(calc), Not(read)), ECC_MASK28)

EccOdd(syndrome) == And(syndrome, ECC_MASK)
EccEven(syndrome) == And(Shr(syndrome, 1), ECC_MASK)

BitNum(ecc_even) ==
    Val(Or(Or(And(ecc_even, {0}),                       \* ecc_even & 0x01
              And(Shr(ecc_even, 1), {1})),              \* (ecc_even >> 1) & 0x02
              And(Shr(ecc_even, 2), {2})))              \* (ecc_even >> 2) & 0x04

\* variant: every byte-address shift one short
ByteAddr_ShiftShort(ecc_even) ==
    Val(UNION {And(Shr(ecc_even, 5 + k), {k}) : k \in 0..10})

ByteAddr(ecc_even) ==
    Val(UNION {And(Shr(ecc_even, 6 + k), {k}) : k \in 0..10})

\* variant: | in place of ^
IsCorrectable_Or(ecc_odd, ecc_even) == Or(ecc_odd, ecc_even) = ECC_MASK

\* if ((ecc_odd ^ ecc_even) == ECC_MASK): 1-bit correctable error?
IsCorrectable(ecc_odd, ecc_even) == Xor(ecc_odd, ecc_even) = ECC_MASK

(* the value returned and the data buffer left behind *)
ecc_correct_data(calc, read, data) ==
    LET syndrome == Syndrome(calc, read)
        ecc_odd  == EccOdd(syndrome)
        ecc_even == EccEven(syndrome)
    IN  IF syndrome = {}
        THEN [ret |-> "ECC_NO_ERROR", data |-> data]
        ELSE IF IsCorrectable(ecc_odd, ecc_even)
        THEN [ret |-> "ECC_CORRECTABLE_ERROR",
              data |-> Xor(data, {8 * ByteAddr(ecc_even) + BitNum(ecc_even)})]
        ELSE IF CountOnes(syndrome, CountTopBit) = 1
        THEN [ret |-> "ECC_ECC_ERROR", data |-> data]
        ELSE [ret |-> "ECC_UNCORRECTABLE_ERROR", data |-> data]

---------------------------------------------------------------------------
(* Inputs of the ECC codec: a programmed region, then corrupted bits *)

Pattern(i) == {((i - 1) * 5461 * k) % NumDataBits : k \in 1..(i - 1)}
Patterns == {Pattern(i) : i \in 1..NumPatterns}

SampleAddr(i) == ((i - 1) * (NumDataBits - 1)) % NumDataBits
SampleAddrs == {SampleAddr(i) : i \in 1..NumSampleAddrs}

RECURSIVE SubsetsUpTo(_, _)
SubsetsUpTo(S, n) ==
    IF n = 0 THEN {{}}
    ELSE LET P == SubsetsUpTo(S, n - 1) IN P \cup {p \cup {x} : p \in P, x \in S}

CodeFlipSets == SubsetsUpTo(WordBits, MaxCodeFlips)

EccScenarios ==
    [d : {{}}, c : CodeFlipSets]
      \cup [d : {{a} : a \in DataAddrs}, c : {{}}]
      \cup [d : {{a} : a \in SampleAddrs}, c : CodeFlipSets]
      \cup [d : {{a, b} : a \in SampleAddrs, b \in DataAddrs}, c : {{}}]

Idle ==
    /\ argD = FALSE /\ argS = FALSE /\ sbuf = {} /\ retry = 0
    /\ err = "none" /\ vlog = <<>> /\ rb = 1 /\ polls = 0
    /\ timeout = 0 /\ status = "none" /\ reads = <<>>

EccInit ==
    /\ pc = "ecc_call"
    /\ wdata \in Patterns
    /\ \E s \in EccScenarios : dflips = s.d /\ pflips = s.c
    /\ bflips = {}
    /\ flashData = Xor(wdata, dflips)
    /\ flashSpare = {}
    /\ dbuf = flashData
    /\ ecc_calc = ComputedCode(dbuf)
    /\ ecc_read = Xor(ComputedCode(wdata), pflips)
    /\ result = "none"
    /\ Idle
    /\ XIdle

EccApply ==
    /\ pc = "ecc_call"
    /\ LET r == ecc_correct_data(ecc_calc, ecc_read, dbuf)
       IN  result' = r.ret /\ dbuf' = r.data
    /\ pc' = "ecc_ret"
    /\ UNCHANGED <<flashVars, readVars, lineVars, statVars, ecc_calc, ecc_read>>
    /\ UNCHANGED xVars

EccNext == EccApply

SpecEcc == EccInit /\ [][EccNext]_vars

---------------------------------------------------------------------------
(* The flash page read by read_page: programmed by write_page with a data  *)
(* buffer and no spare buffer, then corrupted bit by bit while idle        *)

MaxFlips == 3               \* bits corrupted between program and read

ECC_OFFSET == 8             \* sbuf + 8: the stored code
ECC_COPY_OFFSET == 12       \* sbuf + 12: its copy

SampleCodeBits == {0, 1, 23, 24, 27, 31}

\* the spare area write_page sends: 0xFF fill, the code and its copy
ProgrammedSpare(data) ==
    StoreWord(StoreWord(Filled(SpareSize), ECC_OFFSET, ComputedCode(data)),
              ECC_COPY_OFFSET, ComputedCode(data))

NumFlips == Cardinality(dflips) + Cardinality(pflips) + Cardinality(bflips)

ReadInit ==
    /\ pc = "idle"
    /\ wdata \in Patterns
    /\ flashData = wdata
    /\ flashSpare = ProgrammedSpare(wdata)
    /\ dflips = {} /\ pflips = {} /\ bflips = {}
    /\ dbuf = {} /\ ecc_calc = {} /\ ecc_read = {} /\ result = "none"
    /\ Idle
    /\ XIdle

FlipData ==
    /\ pc = "idle" /\ NumFlips < MaxFlips
    /\ \E a \in SampleAddrs \ dflips :
          /\ flashData' = Xor(flashData, {a})
          /\ dflips' = dflips \cup {a}
    /\ UNCHANGED <<pc, flashSpare, wdata, pflips, bflips, readVars, eccVars,
                   lineVars, statVars>>
    /\ UNCHANGED xVars

FlipPrimary ==
    /\ pc = "idle" /\ NumFlips < MaxFlips
    /\ \E j \in SampleCodeBits \ pflips :
          /\ flashSpare' = Xor(flashSpare, {8 * ECC_OFFSET + j})
          /\ pflips' = pflips \cup {j}
    /\ UNCHANGED <<pc, flashData, wdata, dflips, bflips, readVars, eccVars,
                   lineVars, statVars>>
    /\ UNCHANGED xVars

FlipBackup ==
    /\ pc = "idle" /\ NumFlips < MaxFlips
    /\ \E j \in SampleCodeBits \ bflips :
          /\ flashSpare' = Xor(flashSpare, {8 * ECC_COPY_OFFSET + j})
          /\ bflips' = bflips \cup {j}
    /\ UNCHANGED <<pc, flashData, wdata, dflips, pflips, readVars, eccVars,
                   lineVars, statVars>>
    /\ UNCHANGED xVars

\* the chip finishes its internal operation and raises Ready/nBusy
ChipReady ==
    /\ rb = 0
    /\ rb' = 1
    /\ UNCHANGED <<pc, flashVars, readVars, eccVars, polls, statVars>>
    /\ UNCHANGED xVars

---------------------------------------------------------------------------
(* What a facade operation puts on the bus, in order: command cycles,      *)
(* address cycles, data transfers (DATA_READ / DATA_WRITE with the buffer  *)
(* and the byte count), the ECC enable / read / disable of the controller  *)
(* and the stores of the code into the spare buffer                        *)

Cmd(c)        == [k |-> "cmd",   c |-> c,   n |-> 0]
Addr(a)       == [k |-> "addr",  c |-> "",  n |-> a]
DataIn(b, n)  == [k |-> "read",  c |-> b,   n |-> n]
DataOut(b, n) == [k |-> "write", c |-> b,   n |-> n]
EccCmd(s)     == [k |-> "ecc",   c |-> s,   n |-> 0]
Store(b, off) == [k |-> "store", c |-> b,   n |-> off]

\* variant: the code is read after accumulation is switched off
EccBracket_LateCapture(transfer) ==
    <<EccCmd("ENABLE"), transfer, EccCmd("DISABLE"), EccCmd("GETECC")>>

\* FSMC_NANDECCCmd(ENABLE); the data-area transfer; FSMC_GetECC();
\* FSMC_NANDECCCmd(DISABLE)
EccBracket(transfer) ==
    <<EccCmd("ENABLE"), transfer, EccCmd("GETECC"), EccCmd("DISABLE")>>

\* pages per block the row address is computed with
NAND_BLOCK_SIZE == 64

\* #define ROW_ADDRESS(block, page) ((page) + ((block) * NAND_BLOCK_SIZE))
ROW_ADDRESS(block, page) == page + block * NAND_BLOCK_SIZE

\* the two 8-bit row address cycles
ADDR_1st_CYCLE(a) == a % 256
ADDR_2nd_CYCLE(a) == (a \div 256) % 256

RowCycles(block, page) ==
    <<Addr(ADDR_1st_CYCLE(ROW_ADDRESS(block, page))),
      Addr(ADDR_2nd_CYCLE(ROW_ADDRESS(block, page)))>>

\* variant: the column cycles in the other order
ColumnCycles_Swapped(d) == <<Addr(IF d THEN 0 ELSE 8), Addr(0)>>

\* column cycles: 0x00, then 0x00 for the data area or 0x08 for the spare
ColumnCycles(d) == <<Addr(0), Addr(IF d THEN 0 ELSE 8)>>

---------------------------------------------------------------------------
(* fsmc_nand_read_page *)

\* if (sbuf == NULL) sbuf = __sbuf;
SbufPtr(s) == IF s THEN "caller" ELSE "__sbuf"

\* the spare area of page p of the modelled block (p is 0 or 1)
PageSpare(p) == IF p = 0 THEN flashSpare ELSE flashSpare1

\* read_page(chip, block, p, dbuf, sbuf) up to the read-confirm command:
\* read-setup, column and row address cycles, read-confirm; d and s tell
\* whether dbuf and sbuf are given, prior is what is on the bus already
RP_Enter(d, s, p, prior) ==
    /\ argD' = d /\ argS' = s
    /\ IF ~d /\ SbufPtr(s) = "NULL"
       THEN /\ pc' = "rp_ret" /\ err' = "FM_ERROR" /\ rb' = rb
            /\ bus' = prior
       ELSE /\ pc' = "rp_wait" /\ err' = "FM_SUCCESS" /\ rb' = 0
            /\ bus' = prior \o <<Cmd("NAND_CMD_READ_1")>>
                  \o ColumnCycles(d) \o RowCycles(0, p)
                  \o <<Cmd("NAND_CMD_READ_TRUE")>>
    /\ retry' = 0 /\ vlog' = <<>> /\ polls' = 0
    /\ args' = [NoArgs EXCEPT !.page = p]
    /\ UNCHANGED <<flashVars, sbuf, eccVars, statVars, cfgVars, flashSpare1,
                   ioVars>>

RP_Call ==
    /\ pc = "idle"
    /\ \E d \in BOOLEAN, s \in BOOLEAN : RP_Enter(d, s, 0, <<>>)
    /\ caller' = "read_page" /\ ret' = "none"

\* WAIT_FLASH_READY()
RP_WaitReady ==
    /\ pc = "rp_wait"
    /\ IF rb = 0
       THEN pc' = pc /\ polls' = 1 - polls
       ELSE pc' = "rp_xfer" /\ polls' = polls
    /\ UNCHANGED <<flashVars, readVars, eccVars, rb, statVars>>
    /\ UNCHANGED xVars

\* dbuf != NULL: ECC on, DATA_READ(dbuf, data_size), capture the code, ECC off
RP_DataXfer ==
    /\ pc = "rp_xfer" /\ argD
    /\ dbuf' = flashData
    /\ ecc_calc' = ComputedCode(flashData)
    /\ bus' = bus \o EccBracket(DataIn("dbuf", fspec.data_size))
    /\ pc' = "rp_spare"
    /\ UNCHANGED <<flashVars, readVars, ecc_read, result, lineVars, statVars>>
    /\ UNCHANGED <<caller, args, ret, cfgVars, flashSpare1, ioVars>>

\* random-output to the spare column, DATA_READ(sbuf, spare_size)
RP_SpareXfer ==
    /\ pc = "rp_spare"
    /\ IF SbufPtr(argS) # "NULL"
       THEN /\ sbuf' = PageSpare(args.page)
            /\ bus' = bus \o <<Cmd("NAND_CMD_RANDOMOUT"), Addr(0), Addr(8),
                                Cmd("NAND_CMD_RANDOMOUT_TRUE"),
                                DataIn("sbuf", fspec.spare_size)>>
       ELSE sbuf' = sbuf /\ bus' = bus
    /\ pc' = "rp_ecc"
    /\ UNCHANGED <<flashVars, argD, argS, retry, err, vlog, eccVars, lineVars,
                   statVars>>
    /\ UNCHANGED <<caller, args, ret, cfgVars, flashSpare1, ioVars>>

\* dbuf == NULL: DATA_READ(sbuf, spare_size) only; nothing to verify
RP_SpareOnly ==
    /\ pc = "rp_xfer" /\ ~argD
    /\ sbuf' = PageSpare(args.page)
    /\ bus' = bus \o <<DataIn("sbuf", fspec.spare_size)>>
    /\ pc' = "rp_ret"
    /\ UNCHANGED <<flashVars, argD, argS, retry, err, vlog, eccVars, lineVars,
                   statVars>>
    /\ UNCHANGED <<caller, args, ret, cfgVars, flashSpare1, ioVars>>

\* ecc_read = the word at sbuf + 8
RP_LoadEcc ==
    /\ pc = "rp_ecc"
    /\ ecc_read' = LoadWord(sbuf, ECC_OFFSET)
    /\ vlog' = Append(vlog, [off |-> ECC_OFFSET, res |-> "pending"])
    /\ pc' = "ecc_retry"
    /\ UNCHANGED <<flashVars, argD, argS, sbuf, retry, err, dbuf, ecc_calc,
                   result, lineVars, statVars>>
    /\ UNCHANGED xVars

\* variant: a failed retry does not fall through to the failure case
EccSwitch_NoFallThrough(res, rty) ==
    CASE res = "ECC_NO_ERROR" -> "return"
      [] res = "ECC_CORRECTABLE_ERROR" -> "return"
      [] res = "ECC_ECC_ERROR" /\ rty = 0 -> "retry"
      [] res = "ECC_ECC_ERROR" /\ rty # 0 -> "return"
      [] OTHER -> "fail"

\* variant: the retry flag is not tested
EccSwitch_AlwaysRetry(res, rty) ==
    CASE res = "ECC_NO_ERROR" -> "return"
      [] res = "ECC_CORRECTABLE_ERROR" -> "return"
      [] res = "ECC_ECC_ERROR" -> "retry"
      [] OTHER -> "fail"

\* variant: an error in the stored code fails at once
EccSwitch_NoRetry(res, rty) ==
    CASE res = "ECC_NO_ERROR" -> "return"
      [] res = "ECC_CORRECTABLE_ERROR" -> "return"
      [] OTHER -> "fail"

\* the switch on the value of ecc_correct_data: what read_page does next
EccSwitch(res, rty) ==
    CASE res = "ECC_NO_ERROR" -> "return"
      [] res = "ECC_CORRECTABLE_ERROR" -> "return"
      [] res = "ECC_ECC_ERROR" /\ rty = 0 -> "retry"
      [] OTHER -> "fail"

Logged(log, res) == [log EXCEPT ![Len(log)].res = res]

\* label ecc_retry
RP_EccRetry ==
    /\ pc = "ecc_retry"
    /\ IF ecc_calc # ecc_read
       THEN LET r == ecc_correct_data(ecc_calc, ecc_read, dbuf)
                next == EccSwitch(r.ret, retry)
            IN  /\ result' = r.ret
                /\ dbuf' = r.data
                /\ IF next = "retry"
                   THEN /\ retry' = 1
                        /\ ecc_read' = LoadWord(sbuf, ECC_COPY_OFFSET)
                        /\ vlog' = Append(Logged(vlog, r.ret),
                                          [off |-> ECC_COPY_OFFSET, res |-> "pending"])
                        /\ err' = err
                        /\ pc' = "ecc_retry"
                   ELSE /\ retry' = retry
                        /\ ecc_read' = ecc_read
                        /\ vlog' = Logged(vlog, r.ret)
                        /\ err' = IF next = "fail" THEN "FM_ECC_ERROR" ELSE err
                        /\ pc' = "rp_ret"
       ELSE /\ vlog' = Logged(vlog, "equal")
            /\ pc' = "rp_ret"
            /\ UNCHANGED <<result, dbuf, retry, ecc_read, err>>
    /\ UNCHANGED <<flashVars, argD, argS, sbuf, ecc_calc, lineVars, statVars>>
    /\ UNCHANGED xVars

ReadNext ==
    \/ FlipData \/ FlipPrimary \/ FlipBackup \/ ChipReady
    \/ RP_Call \/ RP_WaitReady \/ RP_DataXfer \/ RP_SpareXfer \/ RP_SpareOnly
    \/ RP_LoadEcc \/ RP_EccRetry

SpecRead == ReadInit /\ [][ReadNext]_vars

SpecEccRead == (EccInit \/ ReadInit) /\ [][EccNext \/ ReadNext]_vars

---------------------------------------------------------------------------
(* fsmc_nand_get_status.  A status byte is the set of the flags set in it:  *)
(* the NAND_ERROR bit, the NAND_READY bit, and any other bit.               *)

StatusTimeout == 2          \* timeout = 2

StatusBytes == SUBSET {"NAND_ERROR", "NAND_READY", "OTHER"}

\* the if / else if / else on the status byte
DecodeStatus(data) ==
    IF "NAND_ERROR" \in data THEN "NAND_ERROR"
    ELSE IF "NAND_READY" \in data THEN "NAND_READY"
    ELSE "NAND_BUSY"

StatusInit ==
    /\ pc = "gs_idle"
    /\ rb \in {0, 1}
    /\ polls = 0
    /\ timeout = 0 /\ status = "none" /\ reads = <<>>
    /\ flashData = {} /\ flashSpare = {} /\ wdata = {}
    /\ dflips = {} /\ pflips = {} /\ bflips = {}
    /\ argD = FALSE /\ argS = FALSE /\ sbuf = {} /\ retry = 0
    /\ err = "none" /\ vlog = <<>>
    /\ dbuf = {} /\ ecc_calc = {} /\ ecc_read = {} /\ result = "none"
    /\ XIdle

\* uint32_t data, timeout = 2, status = NAND_BUSY;
GS_Call ==
    /\ pc = "gs_idle"
    /\ timeout' = StatusTimeout
    /\ status' = "NAND_BUSY"
    /\ reads' = <<>>
    /\ polls' = 0
    /\ pc' = "gs_wait"
    /\ UNCHANGED <<flashVars, readVars, eccVars, rb>>
    /\ UNCHANGED xVars

\* WAIT_FLASH_READY(): while (pin == 0);
GS_WaitReady ==
    /\ pc = "gs_wait"
    /\ IF rb = 0
       THEN pc' = pc /\ polls' = 1 - polls
       ELSE pc' = "gs_loop" /\ polls' = polls
    /\ UNCHANGED <<flashVars, readVars, eccVars, rb, statVars>>
    /\ UNCHANGED xVars

\* while ((status != NAND_READY) && (timeout != 0))
GS_LoopTest ==
    /\ pc = "gs_loop"
    /\ pc' = IF status # "NAND_READY" /\ timeout # 0 THEN "gs_read" ELSE "gs_exit"
    /\ UNCHANGED <<flashVars, readVars, eccVars, lineVars, statVars>>
    /\ UNCHANGED xVars

\* status command, status byte read, decode, timeout--
GS_ReadStatus ==
    /\ pc = "gs_read"
    /\ \E data \in StatusBytes :
          /\ reads' = Append(reads, data)
          /\ status' = DecodeStatus(data)
    /\ timeout' = timeout - 1
    /\ pc' = "gs_loop"
    /\ UNCHANGED <<flashVars, readVars, eccVars, lineVars>>
    /\ UNCHANGED xVars

\* if (timeout == 0) status = NAND_TIMEOUT_ERROR; return (status);
GS_Exit ==
    /\ pc = "gs_exit"
    /\ status' = IF timeout = 0 THEN "NAND_TIMEOUT_ERROR" ELSE status
    /\ pc' = "gs_ret"
    /\ UNCHANGED <<flashVars, readVars, eccVars, lineVars, timeout, reads>>
    /\ UNCHANGED xVars

GS_Driver == GS_Call \/ GS_WaitReady \/ GS_LoopTest \/ GS_ReadStatus \/ GS_Exit

StatusNext == GS_Driver \/ ChipReady

\* the processor keeps executing the driver; the chip owes nothing
SpecStatus == StatusInit /\ [][StatusNext]_vars /\ WF_vars(GS_Driver)

---------------------------------------------------------------------------
(* fsmc_nand_sync *)

NumPrevCommands == 3        \* values of prev_command tried

\* nothing is in progress on the facade; the chip may still be busy
FacadeInit ==
    /\ pc = "fac_idle"
    /\ rb \in {0, 1}
    /\ polls = 0
    /\ timeout = 0 /\ status = "none" /\ reads = <<>>
    /\ flashData = {} /\ flashSpare = {} /\ wdata = {}
    /\ dflips = {} /\ pflips = {} /\ bflips = {}
    /\ argD = FALSE /\ argS = FALSE /\ sbuf = {} /\ retry = 0
    /\ err = "none" /\ vlog = <<>>
    /\ dbuf = {} /\ ecc_calc = {} /\ ecc_read = {} /\ result = "none"
    /\ XIdle

\* variant: only the error state is reported as a failure
SyncResult_NotError(st) == IF st # "NAND_ERROR" THEN "FM_SUCCESS" ELSE "FM_ERROR"

\* if (status == NAND_READY) return(FM_SUCCESS); else return(FM_ERROR);
SyncResult(st) == IF st = "NAND_READY" THEN "FM_SUCCESS" ELSE "FM_ERROR"

\* entry of fsmc_nand_sync(chip, prev_command), up to the get_status call
SY_Call ==
    /\ pc \in {"fac_idle", "wr_ret"}
    /\ \E c \in 0..(NumPrevCommands - 1) :
          args' = [NoArgs EXCEPT !.prev_command = c]
    /\ caller' = "sync" /\ ret' = "none" /\ bus' = <<>>
    /\ pc' = "gs_idle"
    /\ UNCHANGED <<flashVars, readVars, eccVars, lineVars, statVars, cfgVars,
                   flashSpare1, ioVars>>

\* status = fsmc_nand_get_status(chip); and the return
SY_Return ==
    /\ pc = "gs_ret" /\ caller = "sync"
    /\ ret' = SyncResult(status)
    /\ pc' = "sy_ret"
    /\ UNCHANGED <<flashVars, readVars, eccVars, lineVars, statVars, caller,
                   args, bus, cfgVars, flashSpare1, ioVars>>

SyncNext == SY_Call \/ GS_Driver \/ SY_Return \/ ChipReady

SpecSync == FacadeInit /\ [][SyncNext]_vars

---------------------------------------------------------------------------
(* fsmc_nand_write_page, fsmc_nand_write_bytes, fsmc_nand_erase *)

\* sectors the scratch spare buffer __sbuf[16 * MAX_SECTORS_PER_PAGE] is for
MAX_SECTORS_PER_PAGE == 4

NumByteCounts == 6          \* values of num_bytes tried

\* num_bytes of read_bytes / write_bytes: around the limit of 4, and larger
ByteCount(i) ==
    CASE i = 1 -> 0  [] i = 2 -> 3  [] i = 3 -> 4  [] i = 4 -> 5
      [] i = 5 -> DataSize  [] OTHER -> DataSize + 8 * (i - 5)

ByteCounts == {ByteCount(i) : i \in 1..NumByteCounts}

\* spare buffers a caller passes: all 0xFF but the first byte, and all 0x00
CallerSpares == {Filled(SpareSize) \ {0}, {}}

\* variant: programming sets bits
Program_Set(old, new) == old \cup new

\* NAND programming only clears bits
Program(old, new) == old \cap new

\* the first n bytes of a buffer
Bytes(buf, n) == {x \in buf : x < 8 * n}

\* a page with every cell erased
WriteInit ==
    /\ pc = "fac_idle"
    /\ rb = 1 /\ polls = 0
    /\ timeout = 0 /\ status = "none" /\ reads = <<>>
    /\ flashData = Filled(DataSize) /\ flashSpare = Filled(SpareSize)
    /\ flashSpare1 = Filled(SpareSize)
    /\ wdata = {} /\ dflips = {} /\ pflips = {} /\ bflips = {}
    /\ argD = FALSE /\ argS = FALSE /\ sbuf = {} /\ retry = 0
    /\ err = "none" /\ vlog = <<>>
    /\ dbuf = {} /\ ecc_calc = {} /\ ecc_read = {} /\ result = "none"
    /\ caller = "none" /\ args = NoArgs /\ ret = "none" /\ bus = <<>>
    /\ asyncMode \in {0, 1}
    /\ fspec = StaticSpec /\ nand_id = <<>> /\ dma = DmaReset /\ xfer = NoXfer

\* variant: the status is resolved in either mode
AfterConfirm_AlwaysStatus == "gs_idle"

\* #if (ASYNC_MODE == 0) status = fsmc_nand_get_status(chip); #endif
AfterConfirm == IF asyncMode = 0 THEN "gs_idle" ELSE "wr_status"

\* uint8_t __sbuf[16 * MAX_SECTORS_PER_PAGE];
ScratchSize == 16 * MAX_SECTORS_PER_PAGE

\* what DATA_WRITE(sbuf, n) finds behind the end of __sbuf when n is larger
\* than the array: whatever the stack holds there (all bits set, all clear,
\* or a first byte of 0x00 followed by 0xFF are tried)
BeyondScratch(n) ==
    IF n <= ScratchSize THEN {{}}
    ELSE {(8 * ScratchSize)..(8 * n - 1), {},
          (8 * ScratchSize + 8)..(8 * n - 1)}

\* variant: the bytes before the code are set to 0xFF as well
StoreCodes_FillHead(spare, code) ==
    StoreWord(StoreWord(spare, ECC_OFFSET, code), ECC_COPY_OFFSET, code)
      \cup Filled(ECC_OFFSET)

\* variant: only the primary copy of the code is stored
StoreCodes_PrimaryOnly(spare, code) == StoreWord(spare, ECC_OFFSET, code)

\* the word at sbuf + 8 = ecc_calc; the word at sbuf + 12 = ecc_calc;
StoreCodes(spare, code) ==
    StoreWord(StoreWord(spare, ECC_OFFSET, code), ECC_COPY_OFFSET, code)

\* the two stores as the trace records them
CodeStores == <<Store("sbuf", ECC_OFFSET), Store("sbuf", ECC_COPY_OFFSET)>>

\* write_page up to the program-confirm command
WP_Call ==
    /\ pc \in {"fac_idle", "ri_ret"}
    /\ \E d \in BOOLEAN, s \in BOOLEAN, data \in Patterns, sp \in CallerSpares :
       \E over \in (IF s THEN {{}} ELSE BeyondScratch(fspec.spare_size)) :
         LET given == IF s THEN sp ELSE Filled(ScratchSize) \cup over
             code  == ComputedCode(data)
             spare == IF d THEN StoreCodes(given, code) ELSE given
         IN  /\ argD' = d /\ argS' = s
             /\ IF ~d /\ SbufPtr(s) = "NULL"
                THEN /\ pc' = "wr_ret" /\ ret' = "FM_ERROR" /\ bus' = <<>>
                     /\ UNCHANGED <<flashVars, dbuf, sbuf, ecc_calc, rb>>
                ELSE /\ dbuf' = IF d THEN data ELSE dbuf
                     /\ sbuf' = spare
                     /\ ecc_calc' = IF d THEN code ELSE ecc_calc
                     /\ bus' = <<Cmd("NAND_CMD_PAGEPROGRAM")>>
                           \o ColumnCycles(d) \o RowCycles(0, 0)
                           \o (IF d
                               THEN EccBracket(DataOut("dbuf", fspec.data_size))
                                    \o CodeStores
                                    \o <<Cmd("NAND_CMD_RANDOMIN"), Addr(0), Addr(8),
                                         DataOut("sbuf", fspec.spare_size)>>
                               ELSE <<DataOut("sbuf", fspec.spare_size)>>)
                           \o <<Cmd("NAND_CMD_PAGEPROGRAM_TRUE")>>
                     /\ flashData' = IF d THEN Program(flashData, data)
                                          ELSE flashData
                     /\ flashSpare' =
                           Program(flashSpare, Bytes(spare, fspec.spare_size))
                     /\ wdata' = IF d THEN data ELSE wdata
                     /\ UNCHANGED <<dflips, pflips, bflips>>
                     /\ rb' = 0
                     /\ pc' = AfterConfirm /\ ret' = "none"
             /\ args' = [NoArgs EXCEPT !.spare = IF s THEN sp ELSE {}]
    /\ caller' = "write_page"
    /\ status' = "NAND_READY" /\ timeout' = 0 /\ reads' = <<>>
    /\ UNCHANGED <<retry, err, vlog, ecc_read, result, polls, cfgVars,
                   flashSpare1, ioVars>>

\* variant: three bytes are accepted
TooShort_Three(n) == n < 3

\* if (num_bytes < 4) return(FM_ERROR);
TooShort(n) == n < 4

\* the page after its first n bytes are programmed from a buffer
ProgramBytes(old, base, buf, n) ==
    {x \in old : base + x >= 8 * n \/ (base + x) \in buf}

\* write_bytes up to the program-confirm command
WB_Call ==
    /\ pc = "fac_idle"
    /\ \E d \in BOOLEAN, n \in ByteCounts, data \in Patterns :
          /\ argD' = d
          /\ args' = [NoArgs EXCEPT !.num_bytes = n]
          /\ IF ~d \/ TooShort(n)
             THEN /\ pc' = "wr_ret" /\ ret' = "FM_ERROR" /\ bus' = <<>>
                  /\ UNCHANGED <<flashVars, dbuf, rb>>
             ELSE /\ dbuf' = Bytes(data, n)
                  /\ bus' = <<Cmd("NAND_CMD_PAGEPROGRAM"), Addr(0), Addr(0)>>
                        \o RowCycles(0, 0)
                        \o <<DataOut("dbuf", n),
                             Cmd("NAND_CMD_PAGEPROGRAM_TRUE")>>
                  /\ flashData' = ProgramBytes(flashData, 0, data, n)
                  /\ flashSpare' =
                        ProgramBytes(flashSpare, 8 * fspec.data_size, data, n)
                  /\ wdata' = data
                  /\ UNCHANGED <<dflips, pflips, bflips>>
                  /\ rb' = 0
                  /\ pc' = AfterConfirm /\ ret' = "none"
    /\ caller' = "write_bytes" /\ argS' = FALSE
    /\ status' = "NAND_READY" /\ timeout' = 0 /\ reads' = <<>>
    /\ UNCHANGED <<sbuf, retry, err, vlog, ecc_calc, ecc_read, result, polls,
                   cfgVars, flashSpare1, ioVars>>

\* erase up to the erase-confirm command
ER_Call ==
    /\ pc = "fac_idle"
    /\ bus' = <<Cmd("NAND_CMD_ERASE0")>> \o RowCycles(0, 0)
                 \o <<Cmd("NAND_CMD_ERASE1")>>
    /\ flashData' = Filled(fspec.data_size)
    /\ flashSpare' = Filled(fspec.spare_size)
    /\ flashSpare1' = Filled(fspec.spare_size)
    /\ wdata' = {} /\ dflips' = {} /\ pflips' = {} /\ bflips' = {}
    /\ rb' = 0
    /\ caller' = "erase" /\ args' = NoArgs /\ ret' = "none"
    /\ status' = "NAND_READY" /\ timeout' = 0 /\ reads' = <<>>
    /\ pc' = AfterConfirm
    /\ UNCHANGED <<readVars, eccVars, polls, cfgVars, ioVars>>

\* variant: every failure is reported as a write failure
WriteResult_NoEraseCode(op, st) ==
    IF st = "NAND_READY" THEN "FM_SUCCESS" ELSE "FM_WRITE_ERROR"

\* if (status == NAND_READY) return(FM_SUCCESS);
\* else return(FM_WRITE_ERROR);   (FM_ERASE_ERROR in fsmc_nand_erase)
WriteResult(op, st) ==
    IF st = "NAND_READY" THEN "FM_SUCCESS"
    ELSE IF op = "erase" THEN "FM_ERASE_ERROR" ELSE "FM_WRITE_ERROR"

WriteOps == {"write_page", "write_bytes", "erase"}

\* the return of the three operations, after get_status when it is called
WR_Return ==
    /\ caller \in WriteOps
    /\ pc = "wr_status" \/ pc = "gs_ret"
    /\ ret' = WriteResult(caller, status)
    /\ pc' = "wr_ret"
    /\ UNCHANGED <<flashVars, readVars, eccVars, lineVars, statVars, caller,
                   args, bus, cfgVars, flashSpare1, ioVars>>

WriteNext ==
    \/ WP_Call \/ WB_Call \/ ER_Call \/ GS_Driver \/ WR_Return \/ ChipReady

SpecWrite == WriteInit /\ [][WriteNext]_vars

\* one write or erase, then the caller's sync
AsyncNext == WriteNext \/ SY_Call \/ SY_Return

SpecAsync == WriteInit /\ [][AsyncNext]_vars

---------------------------------------------------------------------------
(* fsmc_nand_read_bytes *)

\* the first n bytes of the addressed page, data area first
PageBytes(n) ==
    Bytes(flashData, n)
      \cup {8 * fspec.data_size + x : x \in Bytes(flashSpare, n - fspec.data_size)}

\* a programmed page, no call in progress
BytesInit ==
    /\ pc = "fac_idle"
    /\ wdata \in Patterns
    /\ flashData = wdata
    /\ flashSpare = ProgrammedSpare(wdata)
    /\ dflips = {} /\ pflips = {} /\ bflips = {}
    /\ dbuf = {} /\ ecc_calc = {} /\ ecc_read = {} /\ result = "none"
    /\ Idle
    /\ XIdle

\* read_bytes up to the read-confirm command
RB_Call ==
    /\ pc = "fac_idle"
    /\ \E d \in BOOLEAN, n \in ByteCounts :
          /\ argD' = d
          /\ args' = [NoArgs EXCEPT !.num_bytes = n]
          /\ IF ~d \/ TooShort(n)
             THEN /\ pc' = "rb_ret" /\ ret' = "FM_ERROR" /\ bus' = <<>>
                  /\ rb' = rb
             ELSE /\ bus' = <<Cmd("NAND_CMD_READ_1"), Addr(0), Addr(0)>>
                        \o RowCycles(0, 0) \o <<Cmd("NAND_CMD_READ_TRUE")>>
                  /\ rb' = 0
                  /\ pc' = "rb_wait" /\ ret' = "none"
    /\ caller' = "read_bytes" /\ argS' = FALSE /\ polls' = 0
    /\ UNCHANGED <<flashVars, sbuf, retry, err, vlog, eccVars, statVars,
                   cfgVars, flashSpare1, ioVars>>

\* WAIT_FLASH_READY()
RB_WaitReady ==
    /\ pc = "rb_wait"
    /\ IF rb = 0
       THEN pc' = pc /\ polls' = 1 - polls
       ELSE pc' = "rb_xfer" /\ polls' = polls
    /\ UNCHANGED <<flashVars, readVars, eccVars, rb, statVars>>
    /\ UNCHANGED xVars

\* DATA_READ(dbuf, num_bytes); return(FM_SUCCESS);
RB_Xfer ==
    /\ pc = "rb_xfer"
    /\ dbuf' = PageBytes(args.num_bytes)
    /\ bus' = bus \o <<DataIn("dbuf", args.num_bytes)>>
    /\ ret' = "FM_SUCCESS"
    /\ pc' = "rb_ret"
    /\ UNCHANGED <<flashVars, readVars, ecc_calc, ecc_read, result, lineVars,
                   statVars, caller, args, cfgVars, flashSpare1, ioVars>>

BytesNext ==
    \/ RB_Call \/ RB_WaitReady \/ RB_Xfer \/ WB_Call \/ WR_Return \/ ChipReady

SpecBytes == BytesInit /\ [][BytesNext]_vars

---------------------------------------------------------------------------
(* fsmc_nand_read_id: the identity bytes and the geometry derived from them *)

\* (x & mask) >> lo, for a mask of n bits that starts at bit lo
Field(x, lo, n) == (x \div (2^lo)) % (2^n)

\* variant: the page size class is read from three bits
PageSizeOf_ThreeBits(id4) == 1024 * 2^Field(id4, 0, 3)

\* n->page_size = 1024 << (nand_id->id4 & 0x03);
PageSizeOf(id4) == 1024 * 2^Field(id4, 0, 2)

\* variant: the page count assumes 2048-byte pages
PagesPerBlock_FixedPage(block_size, data_size) == block_size \div 2048

\* f->pages_per_block = f->block_size / f->data_size;
PagesPerBlock(block_size, data_size) == block_size \div data_size

\* the fields of nand_info[chip] extracted from the 3rd, 4th and 5th byte
NandInfo(id) ==
    [internal_chip_number |-> 2^Field(id[3], 0, 2),
     cell_type            |-> 2 * 2^Field(id[3], 2, 2),
     simul_prog_pages     |-> 2^Field(id[3], 4, 2),
     interleave_support   |-> Field(id[3], 6, 1),
     cache_prog_support   |-> Field(id[3], 7, 1),
     page_size            |-> PageSizeOf(id[4]),
     block_size           |-> 65536 * 2^Field(id[4], 4, 2),
     spare_size_per_512   |-> 8 * 2^Field(id[4], 2, 1),
     organization         |-> 8 * 2^Field(id[4], 6, 1),
     serial_access_min    |-> 50 \div 2^Field(id[4], 7, 1),
     plane_number         |-> 2^Field(id[5], 2, 2),
     plane_size           |-> 8388608 * 2^Field(id[5], 4, 3)]

\* flash_spec[chip] as the do { ... } while (0) block assigns it from n
ChipSpecOf(n) ==
    LET data    == n.page_size
        sectors == data \div 512
        spare   == n.spare_size_per_512 * sectors
        ppb     == PagesPerBlock(n.block_size, data)
        blocks  == (n.plane_size \div n.block_size) * n.plane_number
    IN  [page_size |-> data + spare, data_size |-> data, spare_size |-> spare,
         sectors_per_page |-> sectors, pages_per_block |-> ppb,
         block_size |-> n.block_size, num_blocks |-> blocks,
         num_dies_per_ce |-> n.internal_chip_number,
         num_planes |-> n.plane_number,
         max_num_bad_blocks |-> (blocks * 245) \div 10000]

\* identities tried: the K9F1G08U0A with every fifth byte, and every fourth
\* byte with sample values of the other four
Id5Samples == {0, 12, 64, 112, 124, 255}
IdPrefixes == {<<236, 241, 128>>, <<173, 241, 0>>, <<0, 0, 255>>}

Identities ==
    {<<236, 241, 128, 21, x>> : x \in 0..255}
      \cup {p \o <<i4, i5>> : p \in IdPrefixes, i4 \in 0..255, i5 \in Id5Samples}

\* identities a repeated call is tried with
RepeatIdentities ==
    {<<236, 241, 128, 21, 64>>, <<173, 241, 128, 29, 0>>, <<0, 0, 0, 0, 0>>,
     <<255, 255, 255, 255, 255>>}

\* the whole of fsmc_nand_read_id
RI_Call ==
    /\ pc \in {"fac_idle", "ri_ret"}
    /\ \E id \in IF pc = "fac_idle" THEN Identities ELSE RepeatIdentities :
          /\ nand_id' = id
          /\ fspec' = ChipSpecOf(NandInfo(id))
    /\ bus' = <<Cmd("NAND_CMD_READID"), Addr(0)>>
                \o [i \in 1..5 |-> DataIn("nand_id", 1)]
    /\ caller' = "read_id" /\ args' = NoArgs /\ ret' = "FM_SUCCESS"
    /\ pc' = "ri_ret"
    /\ UNCHANGED <<flashVars, readVars, eccVars, lineVars, statVars, asyncMode,
                   flashSpare1, ioVars>>

\* blocks and pages addressed: the first two and the last of the chip
SampleBlocks == {0, 1, fspec.num_blocks - 1}
SamplePages  == {0, 1, fspec.pages_per_block - 1}

\* the row address cycles of read_page, read_bytes, write_page, write_bytes
\* (page of the block) and erase (page 0 of the block)
AddressPage ==
    /\ pc \in {"fac_idle", "ri_ret"}
    /\ \E b \in SampleBlocks, p \in SamplePages :
          /\ args' = [NoArgs EXCEPT !.block = b, !.page = p]
          /\ bus' = RowCycles(b, p)
    /\ caller' = "address" /\ ret' = "none"
    /\ pc' = "addr_ret"
    /\ UNCHANGED <<flashVars, readVars, eccVars, lineVars, statVars, cfgVars,
                   flashSpare1, ioVars>>

GeometryNext == RI_Call \/ AddressPage

SpecGeometry == FacadeInit /\ [][GeometryNext]_vars

\* read_id with every page size and spare size per 512 bytes the fourth
\* identity byte can select (its three low bits), then one write
RI_Sweep ==
    /\ pc = "fac_idle"
    /\ RI_Call
    /\ \E id4 \in 0..7 : nand_id' = <<236, 241, 128, id4, 64>>

SpareWriteNext == RI_Sweep \/ WP_Call \/ GS_Driver \/ WR_Return \/ ChipReady

SpecSpareWrite == WriteInit /\ [][SpareWriteNext]_vars

---------------------------------------------------------------------------
(* ecc_correct_data on the data buffer of a chip whose geometry read_id    *)
(* derived, for pairs of codes that differ by a single-bit-error syndrome  *)

NumBufferBytes == 2048      \* byte addresses a syndrome is built for

\* the syndrome of one flipped bit at bit address a: of each pair of parity
\* bits, the odd one when address bit i is set and the even one when clear
SyndromeOf(a) ==
    {2 * i + 1 : i \in {j \in 0..13 : AddrBit(a, j) = 1}}
      \cup {2 * i : i \in {j \in 0..13 : AddrBit(a, j) = 0}}

\* syndromes tried: bit 0 and bit 7 of every byte address, and syndromes
\* that are not of this form
PairSyndromes ==
    {SyndromeOf(8 * b + n) : b \in 0..(NumBufferBytes - 1), n \in {0, 7}}
      \cup {{}, {3}, {0, 1}, {0, 1, 2}}

\* read_page has filled dbuf (data_size bytes of 0x00) and holds the
\* computed code and the stored code, which differ by a syndrome
EccBoundsInit ==
    /\ pc = "ecc_call"
    /\ \E id4 \in 0..3 :
          /\ nand_id = <<236, 241, 128, id4, 64>>
          /\ fspec = ChipSpecOf(NandInfo(nand_id))
    /\ ecc_calc \in {{}, ECC_MASK}
    /\ \E syn \in PairSyndromes : ecc_read = Xor(ecc_calc, syn)
    /\ wdata = {} /\ flashData = {} /\ flashSpare = {} /\ dbuf = {}
    /\ dflips = {} /\ pflips = {} /\ bflips = {}
    /\ result = "none"
    /\ Idle
    /\ caller = "read_page" /\ args = NoArgs /\ ret = "none" /\ bus = <<>>
    /\ asyncMode = ASYNC_MODE
    /\ flashSpare1 = {} /\ dma = DmaReset /\ xfer = NoXfer

SpecEccBounds == EccBoundsInit /\ [][EccNext]_vars

---------------------------------------------------------------------------
(* fsmc_nand_is_bad_block *)

\* first bytes of the spare area tried: 0xFF and three other values
FirstBytes == {255, 0, 254, 127}

\* the bits of byte b
ByteBits(b) == {i \in 0..7 : (b \div (2^i)) % 2 = 1}

\* a spare area whose first byte is b, the rest as in r
SpareWith(b, r) == ByteBits(b) \cup {x \in r : x >= 8}

MarkerSpares ==
    {SpareWith(b, r) : b \in FirstBytes, r \in {Filled(SpareSize), {}}}

\* a block whose pages 0 and 1 carry any of the markers
BadBlockInit ==
    /\ pc = "fac_idle"
    /\ rb = 1 /\ polls = 0
    /\ timeout = 0 /\ status = "none" /\ reads = <<>>
    /\ flashData = {} /\ wdata = {}
    /\ flashSpare \in MarkerSpares /\ flashSpare1 \in MarkerSpares
    /\ dflips = {} /\ pflips = {} /\ bflips = {}
    /\ argD = FALSE /\ argS = FALSE /\ sbuf = {} /\ retry = 0
    /\ err = "none" /\ vlog = <<>>
    /\ dbuf = {} /\ ecc_calc = {} /\ ecc_read = {} /\ result = "none"
    /\ caller = "none" /\ args = NoArgs /\ ret = "none" /\ bus = <<>>
    /\ asyncMode = ASYNC_MODE /\ fspec = StaticSpec /\ nand_id = <<>>
    /\ dma = DmaReset /\ xfer = NoXfer

\* variant: only a first byte of 0x00 marks a bad block
BadMarker_ZeroOnly(buf) == Bytes(buf, 1) = {}

\* buf[0] != 0xFF
BadMarker(buf) == Bytes(buf, 1) # Filled(1)

\* entry of fsmc_nand_is_bad_block(chip, block)
BB_Call ==
    /\ pc = "fac_idle"
    /\ caller' = "is_bad_block" /\ args' = NoArgs /\ ret' = "none"
    /\ bus' = <<>>
    /\ pc' = "bb_page0"
    /\ UNCHANGED <<flashVars, readVars, eccVars, lineVars, statVars, cfgVars,
                   flashSpare1, ioVars>>

\* variant: the second page is checked first
check_page_Reversed(i) == 1 - i

\* check_page[0] = 0; check_page[1] = 1;
check_page(i) == i

\* fsmc_nand_read_page(chip, block, check_page[i], NULL, buf)
BB_ReadPage ==
    /\ pc \in {"bb_page0", "bb_page1"}
    /\ RP_Enter(FALSE, TRUE, check_page(IF pc = "bb_page0" THEN 0 ELSE 1), bus)
    /\ UNCHANGED <<caller, ret>>

\* the two tests that follow each read_page call, and return(FALSE)
BB_Check ==
    /\ pc = "rp_ret" /\ caller = "is_bad_block"
    /\ IF err # "FM_SUCCESS" \/ BadMarker(sbuf)
       THEN ret' = "TRUE" /\ pc' = "bb_ret"
       ELSE IF args.page = 0
            THEN ret' = ret /\ pc' = "bb_page1"
            ELSE ret' = "FALSE" /\ pc' = "bb_ret"
    /\ UNCHANGED <<flashVars, readVars, eccVars, lineVars, statVars, caller,
                   args, bus, cfgVars, flashSpare1, ioVars>>

BadBlockNext ==
    \/ BB_Call \/ BB_ReadPage \/ RP_WaitReady \/ RP_SpareOnly \/ BB_Check
    \/ ChipReady

SpecBadBlock == BadBlockInit /\ [][BadBlockNext]_vars

---------------------------------------------------------------------------
(* write_page with a data buffer and no spare buffer on an erased page,    *)
(* then read_page of the same page                                         *)

\* the caller reads the page back once the write has returned success and
\* the chip has completed the program operation
RP_ReadBack ==
    /\ pc = "wr_ret" /\ caller = "write_page"
    /\ argD /\ ~argS /\ ret = "FM_SUCCESS" /\ rb = 1
    /\ \E d \in BOOLEAN, s \in BOOLEAN : RP_Enter(d, s, 0, <<>>)
    /\ caller' = "read_page" /\ ret' = "none"

WriteReadNext ==
    \/ WP_Call \/ GS_Driver \/ WR_Return \/ ChipReady \/ RP_ReadBack
    \/ RP_WaitReady \/ RP_DataXfer \/ RP_SpareXfer \/ RP_SpareOnly
    \/ RP_LoadEcc \/ RP_EccRetry

SpecWriteRead == WriteInit /\ [][WriteReadNext]_vars

---------------------------------------------------------------------------
(* data_read_dma / data_write_dma: the same code on DMA_RD_STREAM and on   *)
(* DMA_WR_STREAM.  The stream is the environment: it may arm after an      *)
(* enable request or not, and complete an armed transfer or not.           *)

DmaPollBudget == 3          \* stands for timeout = 0x100000

NumDmaSizes == 3            \* transfer sizes tried

DmaSize(i) == CASE i = 1 -> SpareSize [] i = 2 -> DataSize [] OTHER -> 4 + 2 * i

DmaSizes == {DmaSize(i) : i \in 1..NumDmaSizes}

\* if ((uint32_t)buf & 0x03) ...; if (size & 0x03) word_aligned = FALSE;
WordAligned(addr, size) == addr % 4 = 0 /\ size % 4 = 0

DmaOthers == <<flashVars, readVars, eccVars, lineVars, statVars, caller, ret,
               bus, cfgVars, flashSpare1, xfer>>

\* entry of the routine with a buffer address (its two low bits) and a size
DMA_Enter ==
    /\ pc \in {"fac_idle", "dma_ret"}
    /\ \E a \in 0..1, n \in DmaSizes :
          args' = [NoArgs EXCEPT !.buf = a, !.num_bytes = n]
    /\ dma' = [dma EXCEPT !.polls = 0, !.msg = "none"]
    /\ pc' = "dma_wait_dis"
    /\ UNCHANGED DmaOthers

\* while (DMA_GetCmdStatus(STREAM) != DISABLE);
DMA_WaitDisabled ==
    /\ pc = "dma_wait_dis"
    /\ IF dma.en # "DISABLE"
       THEN pc' = pc /\ dma' = [dma EXCEPT !.polls = 1 - dma.polls]
       ELSE pc' = "dma_program" /\ dma' = dma
    /\ UNCHANGED <<DmaOthers, args>>

\* bits of the stream's CR register kept: MINC (10), which stands for the
\* configuration DMA_Init writes besides the data sizes, PSIZE (12:11) and
\* MSIZE (14:13)
CR_MINC == {10}
CR_SIZE_BITS == 11..14

\* DMA_PeripheralDataSize_Word | DMA_MemoryDataSize_Word = 0x1000 | 0x4000;
\* the Byte values are 0
SizeBits(w) == IF w THEN {12, 14} ELSE {}

\* variant: the mask clears PSIZE only (0xFFFFE7FF)
DMA_DATA_SIZE_MASK_PeripheralOnly == {10, 13, 14}

\* #define DMA_DATA_SIZE_MASK 0xFFFF87FF, over the bits kept
DMA_DATA_SIZE_MASK == {10}

\* the transfer unit the stream works with, from PSIZE
UnitOf(cr) == IF 12 \in cr THEN "Word" ELSE IF 11 \in cr THEN "HalfWord" ELSE "Byte"

\* items to transfer: size >> 2 words, or size bytes
ItemCount(w, size) == IF w THEN size \div 4 ELSE size

\* DMA_Init or the register writes, DMA_ClearFlag, DMA_Cmd(STREAM, ENABLE),
\* timeout = 0x100000
DMA_Program ==
    /\ pc = "dma_program"
    /\ LET w  == WordAligned(args.buf, args.num_bytes)
           cr == IF ~dma.dma_inited
                 THEN CR_MINC \cup SizeBits(w)
                 ELSE (dma.dma_reg_cr \cap DMA_DATA_SIZE_MASK) \cup SizeBits(w)
       IN  dma' = [dma EXCEPT !.dma_inited = TRUE,
                              !.inits = IF dma.dma_inited THEN @ ELSE @ + 1,
                              !.dma_reg_cr = IF dma.dma_inited THEN @ ELSE cr,
                              !.cr = cr,
                              !.base = args.buf,
                              !.unit = UnitOf(cr),
                              !.ndtr = ItemCount(w, args.num_bytes),
                              !.tcif = FALSE, !.req = TRUE,
                              !.timeout = DmaPollBudget]
    /\ pc' = "dma_wait_en"
    /\ UNCHANGED <<DmaOthers, args>>

\* while ((DMA_GetCmdStatus(STREAM) != ENABLE) && (--timeout > 0));
\* if (timeout == 0) "DMA command timeout" else timeout = 0x100000
DMA_PollEnabled ==
    /\ pc = "dma_wait_en"
    /\ IF dma.en = "ENABLE"
       THEN pc' = "dma_wait_tc" /\ dma' = [dma EXCEPT !.timeout = DmaPollBudget]
       ELSE IF dma.timeout - 1 > 0
            THEN pc' = pc /\ dma' = [dma EXCEPT !.timeout = dma.timeout - 1]
            ELSE /\ pc' = "dma_ret"
                 /\ dma' = [dma EXCEPT !.timeout = 0,
                                       !.msg = "DMA command timeout"]
    /\ UNCHANGED <<DmaOthers, args>>

\* while ((DMA_GetFlagStatus(STREAM, TCIF) != SET) && (--timeout > 0));
\* if (timeout == 0) "DMA completion timeout"
DMA_PollComplete ==
    /\ pc = "dma_wait_tc"
    /\ IF dma.tcif
       THEN pc' = "dma_ret" /\ dma' = [dma EXCEPT !.msg = "completed"]
       ELSE IF dma.timeout - 1 > 0
            THEN pc' = pc /\ dma' = [dma EXCEPT !.timeout = dma.timeout - 1]
            ELSE /\ pc' = "dma_ret"
                 /\ dma' = [dma EXCEPT !.timeout = 0,
                                       !.msg = "DMA completion timeout"]
    /\ UNCHANGED <<DmaOthers, args>>

\* the stream takes the enable request and reports enabled
StreamArms ==
    /\ dma.req /\ dma.en = "DISABLE"
    /\ dma' = [dma EXCEPT !.en = "ENABLE", !.req = FALSE]
    /\ UNCHANGED <<pc, DmaOthers, args>>

\* the stream moves the last item: completion flag set, stream disabled
StreamCompletes ==
    /\ dma.en = "ENABLE"
    /\ dma' = [dma EXCEPT !.en = "DISABLE", !.tcif = TRUE, !.ndtr = 0]
    /\ UNCHANGED <<pc, DmaOthers, args>>

DmaDriver ==
    \/ DMA_Enter \/ DMA_WaitDisabled \/ DMA_Program \/ DMA_PollEnabled
    \/ DMA_PollComplete

DmaNext == DmaDriver \/ StreamArms \/ StreamCompletes

\* the processor keeps executing the routine; the stream owes nothing
SpecDma == FacadeInit /\ [][DmaNext]_vars /\ WF_vars(DmaDriver)

---------------------------------------------------------------------------
(* data_read / data_write: the processor-driven transfer of size bytes to  *)
(* or from a buffer at address buf (its two low bits are what matters)     *)

NumXferLengths == 12        \* values 0 .. NumXferLengths - 1 of num_bytes tried

\* sizes the facade passes to DATA_READ / DATA_WRITE: the data and spare
\* sizes of flash_spec, as built in or as read_id derives them from a fourth
\* identity byte, and every num_bytes read_bytes / write_bytes accept
IssuedSizes ==
    {fspec.data_size, fspec.spare_size}
      \cup UNION {{ChipSpecOf(NandInfo(<<236, 241, 128, id4, 64>>)).data_size,
                   ChipSpecOf(NandInfo(<<236, 241, 128, id4, 64>>)).spare_size}
                     : id4 \in 0..255}
      \cup {n \in 0..(NumXferLengths - 1) : ~TooShort(n)}

\* variant: the word loop runs while any byte remains
WordLoopGoes_AnyLeft(i, size) == i < size

\* i < size - 3 in uint32_t: for size < 3 the bound wraps to at least
\* 2^32 - 3, which is above every index
WordLoopGoes(i, size) == IF size >= 3 THEN i < size - 3 ELSE TRUE

XferOthers == <<flashVars, readVars, eccVars, lineVars, statVars, ret, bus,
                cfgVars, flashSpare1, dma>>

\* one access of w bytes at buf + i, then i += w
Access(w) == [i |-> xfer.i + w, log |-> Append(xfer.log, [off |-> xfer.i, w |-> w])]

\* the call of data_read or data_write: i = 0
XF_Enter ==
    /\ pc = "fac_idle"
    /\ \E dir \in {"data_read", "data_write"}, a \in 0..3, n \in IssuedSizes :
          /\ caller' = dir
          /\ args' = [NoArgs EXCEPT !.buf = a, !.num_bytes = n]
    /\ xfer' = NoXfer
    /\ pc' = "xf_lead"
    /\ UNCHANGED XferOthers

\* for (i = 0; (uint32_t)(buf + i) & 0x03; i++) one byte
XF_Lead ==
    /\ pc = "xf_lead"
    /\ IF (args.buf + xfer.i) % 4 # 0
       THEN xfer' = Access(1) /\ pc' = pc
       ELSE xfer' = xfer /\ pc' = "xf_word"
    /\ UNCHANGED <<XferOthers, caller, args>>

\* for ( ; i < size - 3; i += 4) one 32-bit word
XF_Word ==
    /\ pc = "xf_word"
    /\ IF WordLoopGoes(xfer.i, args.num_bytes)
       THEN xfer' = Access(4) /\ pc' = pc
       ELSE xfer' = xfer /\ pc' = "xf_tail"
    /\ UNCHANGED <<XferOthers, caller, args>>

\* for ( ; i < size; i++) one byte
XF_Tail ==
    /\ pc = "xf_tail"
    /\ IF xfer.i < args.num_bytes
       THEN xfer' = Access(1) /\ pc' = pc
       ELSE xfer' = xfer /\ pc' = "xf_ret"
    /\ UNCHANGED <<XferOthers, caller, args>>

XferNext == XF_Enter \/ XF_Lead \/ XF_Word \/ XF_Tail

SpecXfer == FacadeInit /\ [][XferNext]_vars

---------------------------------------------------------------------------
(* Properties *)

Low28(w) == w \cap (0..27)
LastPass == vlog[Len(vlog)]
ReadReturned == pc = "rp_ret" /\ argD
BackupConsulted == \E i \in 1..Len(vlog) : vlog[i].off = ECC_COPY_OFFSET

\* C1: a read_page call that transfers data returns success when the final
\* verification is equal / no-error / corrected, and the ECC-failure code
\* exactly when it is uncorrectable or an error in the code found on the
\* copy; it returns nothing else.
C1_ReadPageResult ==
    ReadReturned =>
        /\ err \in {"FM_SUCCESS", "FM_ECC_ERROR"}
        /\ LastPass.res \in {"equal", "ECC_NO_ERROR", "ECC_CORRECTABLE_ERROR"}
              => err = "FM_SUCCESS"
        /\ err = "FM_ECC_ERROR" <=>
              \/ LastPass.res = "ECC_UNCORRECTABLE_ERROR"
              \/ LastPass.res = "ECC_ECC_ERROR" /\ LastPass.off = ECC_COPY_OFFSET

C1_Witness ==
    /\ ReadReturned /\ err = "FM_ECC_ERROR"
    /\ LastPass.res = "ECC_ECC_ERROR" /\ LastPass.off = ECC_COPY_OFFSET

\* C2: the verification runs at most twice in a read_page call: first on the
\* code at offset 8 and, only after that reported an error in the code, once
\* on the copy at offset 12, after which the loop is left.
C2_AtMostTwoVerifications ==
    /\ Len(vlog) <= 2
    /\ Len(vlog) >= 1 => vlog[1].off = ECC_OFFSET
    /\ Len(vlog) = 2 => vlog[1].res = "ECC_ECC_ERROR" /\ vlog[2].off = ECC_COPY_OFFSET
    /\ (pc = "rp_ret" /\ Len(vlog) >= 1) => LastPass.res # "pending"
    /\ (pc = "ecc_retry" /\ Len(vlog) = 2 /\ ecc_calc # ecc_read) =>
          EccSwitch(ecc_correct_data(ecc_calc, ecc_read, dbuf).ret, retry) # "retry"

C2_Witness ==
    /\ ReadReturned /\ Len(vlog) = 2
    /\ vlog[1].res = "ECC_ECC_ERROR" /\ vlog[2].res = "equal"

\* C3 as stated: read_page does not return the ECC-failure code unless the
\* copy of the stored code has been consulted.  Stated for pages whose
\* stored-code bits 24..27 are intact, where the bit count of the
\* verification covers every corrupted bit.
C3_BackupAlwaysConsulted ==
    (ReadReturned /\ err = "FM_ECC_ERROR" /\ pflips \cap (24..27) = {})
        => BackupConsulted

\* C3 as amended: read_page returns the ECC-failure code either at once, when
\* the verification of the primary code is uncorrectable (the copy is then
\* not consulted), or after the copy has been consulted, which happens
\* exactly when the primary verification reported an error in the code.
C3_BackupConsultedAfterEccError ==
    /\ (ReadReturned /\ err = "FM_ECC_ERROR") =>
          \/ Len(vlog) = 1 /\ vlog[1].res = "ECC_UNCORRECTABLE_ERROR"
          \/ Len(vlog) = 2 /\ vlog[1].res = "ECC_ECC_ERROR"
                /\ vlog[2].off = ECC_COPY_OFFSET
    /\ ReadReturned => (BackupConsulted <=> vlog[1].res = "ECC_ECC_ERROR")

C3_Witness ==
    /\ ReadReturned /\ err = "FM_ECC_ERROR" /\ Len(vlog) = 2
    /\ vlog[2].res = "ECC_UNCORRECTABLE_ERROR"

\* C4: one data bit flipped after the code was stored: the verification
\* returns corrected, flips exactly that bit and the buffer equals the
\* programmed region again; read_page of the page returns success with the
\* programmed content.
C4_SingleBitCorrected ==
    /\ (pc = "ecc_ret" /\ Cardinality(dflips) = 1 /\ pflips = {}) =>
          /\ result = "ECC_CORRECTABLE_ERROR"
          /\ Xor(flashData, dbuf) = dflips
          /\ dbuf = wdata
    /\ (ReadReturned /\ Cardinality(dflips) = 1 /\ pflips = {}) =>
          err = "FM_SUCCESS" /\ dbuf = wdata

C4_Witness ==
    /\ ReadReturned /\ dflips = {NumDataBits - 1} /\ pflips = {}
    /\ flashData # wdata /\ result = "ECC_CORRECTABLE_ERROR"
    /\ err = "FM_SUCCESS" /\ dbuf = wdata

\* C5: codes equal in their low 28 bits verify as no-error and the data
\* buffer keeps what was transferred; read_page then returns success.
C5_EqualCodesNoError ==
    /\ (pc = "ecc_ret" /\ Low28(ecc_calc) = Low28(ecc_read)) =>
          result = "ECC_NO_ERROR" /\ dbuf = flashData
    /\ (ReadReturned /\ Low28(ecc_calc) = Low28(ecc_read)) =>
          /\ err = "FM_SUCCESS" /\ dbuf = flashData
          /\ LastPass.res \in {"equal", "ECC_NO_ERROR"}

C5_Witness ==
    /\ ReadReturned /\ ecc_calc # ecc_read /\ Low28(ecc_calc) = Low28(ecc_read)
    /\ result = "ECC_NO_ERROR" /\ err = "FM_SUCCESS"

\* C6: two flipped bits (data bits or valid bits of the stored code) never
\* verify as no-error or corrected: the outcome is uncorrectable or an error
\* in the code, the buffer is not touched, and read_page never returns
\* success with a data buffer that differs from the programmed content.
C6_TwoBitsDetected ==
    /\ (pc = "ecc_ret" /\ pflips \subseteq 0..27
          /\ Cardinality(dflips) + Cardinality(pflips) = 2) =>
          /\ result \in {"ECC_UNCORRECTABLE_ERROR", "ECC_ECC_ERROR"}
          /\ dbuf = flashData
    /\ (ReadReturned /\ NumFlips = 2) => ~(err = "FM_SUCCESS" /\ dbuf # wdata)

C6_Witness ==
    /\ pc = "ecc_ret" /\ dflips = {} /\ pflips \subseteq 0..27
    /\ Cardinality(pflips) = 2 /\ result = "ECC_ECC_ERROR"

\* C7: for a non-zero syndrome that fails the single-data-bit test, the
\* verification returns error-in-the-code if and only if exactly one of the
\* 28 syndrome bits is set, and uncorrectable when more than one is set.
C7_SelfErrorIffOneBit ==
    pc = "ecc_ret" =>
        LET syn == Low28(Xor(ecc_calc, ecc_read))
            odd == syn \cap {2 * i : i \in 0..13}
            even == {i - 1 : i \in syn \cap {2 * j + 1 : j \in 0..13}}
        IN  (syn # {} /\ Xor(odd, even) # {2 * i : i \in 0..13}) =>
                /\ result = "ECC_ECC_ERROR" <=> Cardinality(syn) = 1
                /\ Cardinality(syn) > 1 => result = "ECC_UNCORRECTABLE_ERROR"

ReadyRead(b) == "NAND_READY" \in b /\ "NAND_ERROR" \notin b

\* C8: fsmc_nand_get_status returns the timeout status only when no status
\* byte read during the call reported ready without error; a ready byte,
\* the one of the last attempt included, makes the result ready.
C8_TimeoutOnlyWhileBusy ==
    (pc = "gs_ret" /\ \E i \in 1..Len(reads) : ReadyRead(reads[i]))
        => status = "NAND_READY"

\* C9: a status byte with the error bit set ends the state machine in the
\* error status: no further byte is read and the call returns the error
\* status.
C9_ErrorIsTerminal ==
    /\ \A i \in 1..(Len(reads) - 1) : "NAND_ERROR" \notin reads[i]
    /\ (pc = "gs_ret" /\ \E i \in 1..Len(reads) : "NAND_ERROR" \in reads[i])
          => status = "NAND_ERROR"

\* C10: every call of fsmc_nand_get_status returns, whatever the chip does,
\* a Ready/nBusy pin that stays low included.
C10_StatusReturns == <>(pc = "gs_ret")


\* C11: fsmc_nand_sync returns success exactly when the status it resolved
\* is Ready and the generic failure when it is Error or TimeoutError; what
\* it returns is determined by that status alone, whatever prev_command is.
C11_SyncResult ==
    pc = "sy_ret" =>
        /\ ret \in {"FM_SUCCESS", "FM_ERROR"}
        /\ ret = "FM_SUCCESS" <=> status = "NAND_READY"
        /\ status \in {"NAND_ERROR", "NAND_TIMEOUT_ERROR"} => ret = "FM_ERROR"

C11_Witness ==
    /\ pc = "sy_ret" /\ args.prev_command = 2
    /\ status = "NAND_TIMEOUT_ERROR" /\ ret = "FM_ERROR"

WriteReturned == pc = "wr_ret" /\ caller \in WriteOps /\ bus # <<>>

\* the status the returning operation resolved is Ready / is a failure
ResolvedReady ==
    /\ Len(reads) > 0 /\ status = "NAND_READY"

ResolvedFailure ==
    /\ Len(reads) > 0 /\ status \in {"NAND_ERROR", "NAND_TIMEOUT_ERROR"}

\* C12 as stated: write_page and write_bytes return the write failure and
\* erase the erase failure whenever the status of the command they issued
\* resolves to Error or TimeoutError, and they return success only when that
\* status resolved to Ready.
C12_SuccessOnlyWhenResolvedReady ==
    WriteReturned =>
        /\ ResolvedFailure => ret = WriteResult(caller, "NAND_ERROR")
        /\ ret = "FM_SUCCESS" => ResolvedReady

\* C12 as amended: built with ASYNC_MODE == 0 the three operations resolve
\* the status before they return, and return success exactly when it is Ready
\* and their failure code otherwise; built with ASYNC_MODE == 1 they read no
\* status and return success.
C12_ResultFollowsMode ==
    WriteReturned =>
        /\ asyncMode = 0 =>
              /\ ResolvedReady \/ ResolvedFailure
              /\ ret = "FM_SUCCESS" <=> ResolvedReady
              /\ ResolvedFailure =>
                    ret = IF caller = "erase" THEN "FM_ERASE_ERROR"
                                              ELSE "FM_WRITE_ERROR"
        /\ asyncMode = 1 => reads = <<>> /\ ret = "FM_SUCCESS"

C12_Witness ==
    /\ WriteReturned /\ asyncMode = 0 /\ caller = "erase"
    /\ ResolvedFailure /\ ret = "FM_ERASE_ERROR"

\* C13: read_page called with neither a data buffer nor a spare buffer
\* returns the generic failure and puts no command, address or data cycle on
\* the bus; the chip and the buffers are unchanged.
C13_BothNullRejected ==
    (caller = "read_page" /\ ~argD /\ ~argS) =>
        /\ pc = "rp_ret" /\ err = "FM_ERROR"
        /\ bus = <<>> /\ rb = 1 /\ sbuf = {}

\* the data transfers among the cycles of the running operation
Transfers == SelectSeq(bus, LAMBDA c : c.k \in {"read", "write"})

EccEvents == SelectSeq(bus, LAMBDA c : c.k = "ecc")

\* C14: read_bytes and write_bytes called with a null buffer or with a length
\* below 4 return a failure code without having put any cycle on the bus; with
\* a buffer and a length of at least 4, read_bytes makes exactly one transfer,
\* of that many bytes from the start of the data area, handles no ECC, and
\* returns success.
C14_ByteOperations ==
    /\ (caller \in {"read_bytes", "write_bytes"}
          /\ (~argD \/ args.num_bytes < 4))
         => /\ pc \in {"rb_ret", "wr_ret"}
            /\ ret = "FM_ERROR" /\ bus = <<>> /\ rb = 1
            /\ flashData = wdata /\ dbuf = {}
    /\ (caller = "read_bytes" /\ pc = "rb_ret" /\ argD /\ args.num_bytes >= 4)
         => /\ ret = "FM_SUCCESS"
            /\ Transfers = <<DataIn("dbuf", args.num_bytes)>>
            /\ EccEvents = <<>>
            /\ SubSeq(bus, 2, 3) = <<Addr(0), Addr(0)>>
            /\ dbuf = PageBytes(args.num_bytes)
            /\ ecc_calc = {} /\ result = "none" /\ vlog = <<>>

C14_Witness ==
    /\ caller = "read_bytes" /\ pc = "rb_ret" /\ args.num_bytes = DataSize
    /\ ret = "FM_SUCCESS" /\ dbuf = wdata /\ wdata # {}

\* C15: for every valid block and page, the row address put on
\* the bus is page + block * pages_per_block with the pages_per_block of the
\* chip's current flash_spec, and the two 8-bit row cycles give it back.
C15_RowAddressFollowsChipSpec ==
    pc = "addr_ret" =>
        bus[1].n + 256 * bus[2].n
          = args.page + args.block * fspec.pages_per_block

Int32Max == (2^30 - 1) * 2 + 1

\* C16: initially and after every read_id, whatever the identity bytes,
\* page_size = data_size + spare_size and block_size = pages_per_block *
\* data_size exactly; the divisors are not zero and no value or intermediate
\* product leaves the 32-bit range.
C16_GeometryInvariant ==
    /\ fspec.page_size = fspec.data_size + fspec.spare_size
    /\ fspec.block_size = fspec.pages_per_block * fspec.data_size
    /\ fspec.data_size > 0 /\ fspec.block_size > 0
    /\ \A f \in DOMAIN fspec : fspec[f] >= 0 /\ fspec[f] <= Int32Max
    /\ fspec.num_blocks * 245 <= Int32Max

C16_Witness ==
    /\ pc = "ri_ret" /\ caller = "read_id"
    /\ fspec.data_size = 8192 /\ fspec.block_size = 65536
    /\ fspec.pages_per_block = 8 /\ fspec.num_blocks = 131072

\* C17: for every fifth byte, read_id on 0xEC, 0xF1, 0x80, 0x15, x returns
\* success and leaves data_size 2048, pages_per_block 64, block_size 131072,
\* spare_size 64 and page_size 2112.
C17_K9F1G08Geometry ==
    (pc = "ri_ret" /\ SubSeq(nand_id, 1, 4) = <<236, 241, 128, 21>>) =>
        /\ ret = "FM_SUCCESS"
        /\ fspec.data_size = 2048 /\ fspec.pages_per_block = 64
        /\ fspec.block_size = 131072 /\ fspec.spare_size = 64
        /\ fspec.page_size = 2112

C17_Witness ==
    /\ pc = "ri_ret" /\ nand_id = <<236, 241, 128, 21, 255>>
    /\ ret = "FM_SUCCESS" /\ fspec.pages_per_block = 64

\* C18: is_bad_block returns false exactly when the first spare byte of page
\* 0 and of page 1 of the block are both 0xFF; with any other value in either
\* of them it returns true.
C18_BadBlockIffMarker ==
    pc = "bb_ret" =>
        /\ ret \in {"TRUE", "FALSE"}
        /\ ret = "FALSE" <=>
              /\ \A i \in 0..7 : i \in flashSpare
              /\ \A i \in 0..7 : i \in flashSpare1

C18_Witness ==
    /\ pc = "bb_ret" /\ ret = "TRUE"
    /\ \A i \in 0..7 : i \in flashSpare
    /\ 0 \notin flashSpare1 /\ 1 \in flashSpare1

\* C19: on the 2048/64 chip, a page written by write_page with a data buffer
\* and no spare buffer is read back by read_page with success and the data
\* written; the stored code equals the computed one, so nothing is corrected
\* and the backup copy is not consulted.
C19_WriteReadRoundTrip ==
    (caller = "read_page" /\ pc = "rp_ret" /\ argD) =>
        /\ err = "FM_SUCCESS"
        /\ dbuf = wdata
        /\ ecc_read = ecc_calc
        /\ vlog = <<[off |-> 8, res |-> "equal"]>>
        /\ retry = 0 /\ result = "none"

C19_Witness ==
    /\ caller = "read_page" /\ pc = "rp_ret" /\ argD
    /\ wdata # {} /\ dbuf = wdata /\ err = "FM_SUCCESS"

\* C20: a DMA transfer never blocks for ever: whatever the stream does (it
\* may never report disabled before it is programmed, never report enabled,
\* or never set its completion flag), the call returns.
C20_DmaCallReturns == (pc = "dma_wait_dis") ~> (pc = "dma_ret")

\* C21: when a DMA-driven transfer returns to its caller, the completion
\* flag has been observed set by the poll, so that no operation takes the
\* destination buffer as valid before that.
C21_ReturnsAfterCompletionSeen ==
    pc = "dma_ret" => dma.msg = "completed"

InXfer == pc \in {"xf_lead", "xf_word", "xf_tail", "xf_ret"}

\* bytes before the buffer address is 4-byte aligned
LeadBytes == (4 - (args.buf % 4)) % 4

\* bytes a DMA-driven transfer of the same buffer moves: NDTR items of the
\* unit chosen by alignment
DmaBytes ==
    LET w == WordAligned(args.buf, args.num_bytes)
    IN  ItemCount(w, args.num_bytes) * (IF w THEN 4 ELSE 1)

\* C22: for every buffer alignment and every size the facade issues (all at
\* least 4), data_read and data_write move exactly size bytes in increasing
\* buffer order: single bytes until the address is aligned, words while at
\* least 4 bytes remain, then the tail bytes; size - 3 does not wrap, no
\* byte beyond buf[size - 1] is touched, and the byte count is that of the
\* DMA-driven transfer.
C22_ProcessorTransferExact ==
    InXfer =>
        /\ args.num_bytes >= 4
        /\ xfer.log # <<>> =>
              LET k == Len(xfer.log)
              IN  /\ xfer.log[k].off + xfer.log[k].w <= args.num_bytes
                  /\ xfer.log[k].off =
                        IF k = 1 THEN 0
                        ELSE xfer.log[k - 1].off + xfer.log[k - 1].w
        /\ pc = "xf_ret" =>
              LET L == xfer.log
                  words == (args.num_bytes - LeadBytes) \div 4
              IN  /\ xfer.i = args.num_bytes
                  /\ L[Len(L)].off + L[Len(L)].w = args.num_bytes
                  /\ Len(L) = LeadBytes + words
                                + ((args.num_bytes - LeadBytes) % 4)
                  /\ \A k \in 1..Len(L) :
                        L[k].w = IF k > LeadBytes /\ k <= LeadBytes + words
                                 THEN 4 ELSE 1
                  /\ xfer.i = DmaBytes

C22_Witness ==
    /\ pc = "xf_ret" /\ args.buf = 3 /\ args.num_bytes = 10
    /\ Len(xfer.log) = 4 /\ xfer.log[2].w = 4 /\ xfer.log[3].w = 4


\* the cycles of a read_page call up to the read-confirm command
ReadPrefix ==
    <<Cmd("NAND_CMD_READ_1"), Addr(0), Addr(IF argD THEN 0 ELSE 8)>>
      \o RowCycles(0, args.page) \o <<Cmd("NAND_CMD_READ_TRUE")>>

ReadPageRunning ==
    caller = "read_page" /\ pc \in {"rp_wait", "rp_xfer", "rp_spare", "rp_ecc",
                                    "ecc_retry", "rp_ret"}

BusOrderOfReadPage ==
    ReadPageRunning =>
        /\ SubSeq(bus, 1, Len(ReadPrefix)) = ReadPrefix
        /\ \A k \in 1..Len(bus) :
              /\ bus[k].k = "read" =>
                    k > Len(ReadPrefix) /\ pc \notin {"rp_wait", "rp_xfer"}
              /\ k > Len(ReadPrefix) /\ bus[k].k = "cmd" =>
                    bus[k].c \in {"NAND_CMD_RANDOMOUT", "NAND_CMD_RANDOMOUT_TRUE"}
              /\ argD /\ bus[k] = DataIn("sbuf", fspec.spare_size) =>
                    /\ \E j \in 1..(k - 1) : bus[j] = DataIn("dbuf", fspec.data_size)
                    /\ SubSeq(bus, k - 4, k - 1) =
                          <<Cmd("NAND_CMD_RANDOMOUT"), Addr(0), Addr(8),
                            Cmd("NAND_CMD_RANDOMOUT_TRUE")>>
                    /\ bus[k - 5].k # "read"
              /\ ~argD => bus[k] # DataIn("dbuf", fspec.data_size)

\* the wait after read-confirm is left only on a poll that saw the line high
WaitLeftOnReady ==
    (pc = "rp_wait" /\ pc' # "rp_wait") => (rb = 1 /\ pc' = "rp_xfer")

\* C23: a read_page call emits read-setup, the column cycles 0x00 0x00 (data
\* requested) or 0x00 0x08 (spare only), the two row cycles and read-confirm,
\* then waits for the ready line; no data byte moves before the line was seen
\* high, and with data requested the spare area moves only after the data
\* area and after random-output-setup, its two column cycles and
\* random-output-confirm.
C23_ReadPageBusOrder == []BusOrderOfReadPage /\ [][WaitLeftOnReady]_vars

C23_Witness ==
    /\ caller = "read_page" /\ pc = "rp_ret" /\ argD
    /\ Len(bus) = 15 /\ bus[15] = DataIn("sbuf", fspec.spare_size)


\* positions of the trace at which ECC accumulation is on: after an ENABLE
\* with no DISABLE since
EccOnAt(k) ==
    \E e \in 1..(k - 1) :
        /\ bus[e] = EccCmd("ENABLE")
        /\ \A j \in (e + 1)..(k - 1) : bus[j] # EccCmd("DISABLE")

OperationReturned == pc \in {"rp_ret", "wr_ret"}

DataAreaTransfer(c) ==
    c.k \in {"read", "write"} /\ c.c = "dbuf" /\ c.n = fspec.data_size

\* C24: in read_page and write_page ECC accumulation is switched on
\* immediately before the data-area transfer, the code is read after that
\* transfer and before accumulation is switched off, no command cycle,
\* address cycle or spare-area transfer happens while it is on, and it is
\* off when the operation returns.
C24_EccAroundDataOnly ==
    caller \in {"read_page", "write_page"} =>
        /\ \A k \in 1..Len(bus) :
              /\ bus[k] = EccCmd("ENABLE") =>
                    k + 3 <= Len(bus) /\ DataAreaTransfer(bus[k + 1])
              /\ DataAreaTransfer(bus[k]) =>
                    /\ bus[k - 1] = EccCmd("ENABLE")
                    /\ bus[k + 1] = EccCmd("GETECC")
                    /\ bus[k + 2] = EccCmd("DISABLE")
              /\ bus[k] = EccCmd("GETECC") => EccOnAt(k)
              /\ EccOnAt(k) /\ bus[k].k \in {"cmd", "addr", "read", "write"} =>
                    DataAreaTransfer(bus[k])
        /\ OperationReturned => ~EccOnAt(Len(bus) + 1)

C24_Witness ==
    /\ caller = "read_page" /\ OperationReturned /\ argD
    /\ \E k \in 1..Len(bus) : bus[k] = EccCmd("GETECC")

\* C25: when write_page is given data, the spare area it sends carries the
\* computed code twice, at bytes 8..11 and 12..15, both stored before the
\* spare-area transfer starts; program-confirm is issued exactly once, after
\* the last spare-area byte, as the last command of the sequence.
C25_TwoCodeCopiesThenConfirm ==
    (caller = "write_page" /\ argD /\ bus # <<>>) =>
        LET sent == {k \in 1..Len(bus) : bus[k] = DataOut("sbuf", fspec.spare_size)}
            conf == {k \in 1..Len(bus) : bus[k] = Cmd("NAND_CMD_PAGEPROGRAM_TRUE")}
        IN  /\ LoadWord(sbuf, ECC_OFFSET) = ComputedCode(dbuf)
            /\ LoadWord(sbuf, ECC_COPY_OFFSET) = ComputedCode(dbuf)
            /\ Cardinality(sent) = 1
            /\ \A k \in sent :
                  /\ \E i \in 1..(k - 1) : bus[i] = Store("sbuf", ECC_OFFSET)
                  /\ \E i \in 1..(k - 1) : bus[i] = Store("sbuf", ECC_COPY_OFFSET)
                  /\ \A i \in 1..Len(bus) : bus[i].k = "store" => i < k
            /\ conf = {Len(bus)}
            /\ \A k \in sent : k = Len(bus) - 1

C25_Witness ==
    /\ caller = "write_page" /\ argD /\ ~argS /\ bus # <<>>
    /\ dbuf # {} /\ LoadWord(sbuf, ECC_COPY_OFFSET) # Filled(4)


\* C26: when write_page is given data and no spare buffer, every spare-area
\* byte it sends other than the code copies at offsets 8..15 is 0xFF, for
\* every spare size read_id can derive; the bad-block marker (byte 0) is 0xFF.
C26_SynthesizedSpareIsErased ==
    (caller = "write_page" /\ argD /\ ~argS /\ bus # <<>>) =>
        \A x \in 0..(8 * fspec.spare_size - 1) :
            (x < 8 * ECC_OFFSET \/ x >= 8 * (ECC_COPY_OFFSET + 4)) => x \in sbuf


Programmed == pc \in {"dma_wait_en", "dma_wait_tc", "dma_ret"}

AlignedTransfer == args.buf % 4 = 0 /\ args.num_bytes % 4 = 0

ConfiguredOnce ==
    /\ dma.inits = (IF dma.dma_inited THEN 1 ELSE 0)
    /\ Programmed =>
          /\ dma.inits = 1
          /\ dma.base = args.buf
          /\ dma.unit = (IF AlignedTransfer THEN "Word" ELSE "Byte")
          /\ dma.cr \cap CR_SIZE_BITS = (IF AlignedTransfer THEN {12, 14} ELSE {})
          /\ dma.cr \ CR_SIZE_BITS = CR_MINC

\* the step that programs the stream for a transfer
Reprogrammed ==
    (pc = "dma_program" /\ pc' = "dma_wait_en") =>
        /\ dma'.ndtr = (IF AlignedTransfer THEN args.num_bytes \div 4
                                           ELSE args.num_bytes)
        /\ dma.dma_inited =>
              /\ dma'.inits = dma.inits
              /\ dma'.dma_reg_cr = dma.dma_reg_cr
              /\ dma'.cr \ CR_SIZE_BITS = dma.cr \ CR_SIZE_BITS

\* C27: over any sequence of DMA-driven transfers in one direction the full
\* configuration of the stream is done exactly once, on the first transfer;
\* a later transfer only rewrites the buffer address, the data-size bits and
\* the item count; every transfer is programmed with word units and a count
\* of size / 4 when both the address and the size are multiples of 4 and
\* with byte units and a count of size otherwise, whatever the alignment of
\* the first transfer was.
C27_ConfiguredOnceThenReprogrammed == []ConfiguredOnce /\ [][Reprogrammed]_vars

\* a byte-unit transfer after the stream was configured for words
C27_Witness ==
    /\ pc = "dma_wait_en" /\ dma.req /\ dma.dma_reg_cr = {10, 12, 14}
    /\ dma.unit = "Byte" /\ dma.ndtr = args.num_bytes /\ args.buf = 1


InGetStatus == pc \in {"gs_idle", "gs_wait", "gs_loop", "gs_read", "gs_exit", "gs_ret"}

\* a write or erase of an asynchronous build: no status read, no run of
\* get_status, and the confirm command is the last cycle when it returns
AsyncWriteResolvesNothing ==
    (asyncMode = 1 /\ caller \in WriteOps) =>
        /\ ~InGetStatus
        /\ reads = <<>>
        /\ \A k \in 1..Len(bus) : bus[k] # Cmd("NAND_CMD_STATUS")
        /\ status = "NAND_READY"
        /\ (pc = "wr_ret" /\ bus # <<>>) =>
              /\ bus[Len(bus)].c \in {"NAND_CMD_PAGEPROGRAM_TRUE", "NAND_CMD_ERASE1"}
              /\ ret = "FM_SUCCESS"

\* sync has run get_status when it returns, with at least one status read
SyncResolved ==
    (caller = "sync" /\ pc = "sy_ret") =>
        /\ reads # <<>> /\ Len(reads) <= StatusTimeout
        /\ ret = SyncResult(status)

\* get_status is entered from sync only (or from the operation itself in a
\* synchronous build), and sync returns after its one call
StatusRunsOnceFromSync ==
    /\ (pc # "gs_idle" /\ pc' = "gs_idle") => (caller' = "sync" \/ asyncMode = 0)
    /\ (caller = "sync" /\ pc = "gs_ret") => pc' \in {"gs_ret", "sy_ret"}
    /\ (caller = "sync" /\ pc = "sy_ret") => pc' = "sy_ret"

\* C28: in asynchronous mode write_page, write_bytes and erase read no status
\* and do not run the readiness state machine: they return right after the
\* confirm command; the outcome is resolved only by a later sync, which runs
\* the state machine exactly once, and nothing in the driver starts that
\* check by itself.
C28_AsyncResolvedOnlyBySync ==
    /\ [](AsyncWriteResolvesNothing /\ SyncResolved)
    /\ [][StatusRunsOnceFromSync]_vars

\* sync has returned after an asynchronous write that programmed the page
C28_Witness ==
    /\ asyncMode = 1 /\ caller = "sync" /\ pc = "sy_ret"
    /\ flashData # Filled(DataSize) /\ Len(reads) = 2


\* the cycles of a spare-only read of page p of the block
SpareRead(p) ==
    <<Cmd("NAND_CMD_READ_1"), Addr(0), Addr(8)>> \o RowCycles(0, p)
      \o <<Cmd("NAND_CMD_READ_TRUE"), DataIn("sbuf", fspec.spare_size)>>

\* C29: is_bad_block reads only the spare area of pages 0 and 1, in that
\* order: second column cycle 0x08, no data-area transfer, no ECC
\* verification; nothing is issued for page 1 when the page-0 read fails or
\* the first spare byte of page 0 is not 0xFF.
C29_BadBlockReadsSpareInOrder ==
    caller = "is_bad_block" =>
        LET both == SpareRead(0) \o SpareRead(1)
        IN  /\ Len(bus) <= Len(both)
            /\ \A k \in 1..Len(bus) : bus[k] = both[k]
            /\ \A k \in 1..Len(bus) : bus[k].k # "ecc" /\ bus[k].c # "dbuf"
            /\ vlog = <<>> /\ result = "none" /\ dbuf = {}
            /\ Len(bus) > Len(SpareRead(0)) =>
                  Bytes(flashSpare, 1) = Filled(1)
            /\ pc = "bb_ret" =>
                  Len(bus) = IF Bytes(flashSpare, 1) = Filled(1)
                             THEN Len(both) ELSE Len(SpareRead(0))

C29_Witness ==
    /\ caller = "is_bad_block" /\ pc = "bb_ret" /\ ret = "TRUE"
    /\ Len(bus) = Len(SpareRead(0)) /\ Bytes(flashSpare1, 1) = Filled(1)


\* C30: whenever ecc_correct_data returns the correctable result, the byte
\* whose bit it flipped lies inside the data buffer, i.e. its offset is
\* below the data_size of the chip, for every geometry read_id can derive
\* and every pair of codes.
C30_CorrectionInsideBuffer ==
    (pc = "ecc_ret" /\ result = "ECC_CORRECTABLE_ERROR") =>
        \A x \in Xor(dbuf, flashData) : x \div 8 < fspec.data_size


\* the bytes of a buffer other than bytes 8..15
OutsideCodes(buf) ==
    {x \in buf : x < 8 * ECC_OFFSET \/ x >= 8 * (ECC_COPY_OFFSET + 4)}

\* C31: write_page changes caller memory in one place only: given data and a
\* caller's spare buffer, it overwrites bytes 8..15 of that spare buffer with
\* the two copies of the code and leaves its other bytes and the data buffer
\* as they were; given a spare buffer only, it leaves the caller's buffer as
\* it was.
C31_WritePageFrame ==
    (caller = "write_page" /\ bus # <<>>) =>
        /\ argD => dbuf = wdata
        /\ (argD /\ argS) =>
              /\ OutsideCodes(sbuf) = OutsideCodes(args.spare)
              /\ LoadWord(sbuf, ECC_OFFSET) = ComputedCode(wdata)
              /\ LoadWord(sbuf, ECC_COPY_OFFSET) = ComputedCode(wdata)
        /\ (~argD /\ argS) => sbuf = args.spare

\* write_page has returned after stamping the code into a caller's spare
\* buffer that held other bytes at offsets 8..15
C31_Witness ==
    /\ caller = "write_page" /\ pc = "wr_ret" /\ argD /\ argS
    /\ sbuf # args.spare /\ 0 \notin sbuf /\ 8 \in sbuf

=========================================================================
